---- MODULE Spec2Model ----
(***************************************************************************)
(* ThrottlingMiddleware of fastapi_throttling/throttle.py: the gate        *)
(* (__call__), the rate decision (has_exceeded_rate_limit) and the Redis   *)
(* counter store it talks to.                                              *)
(*                                                                         *)
(* Each worker process runs one request at a time: has_exceeded_rate_limit *)
(* uses the synchronous Redis client and has no suspension point, so the   *)
(* requests of one worker never interleave.  The store is shared: between  *)
(* two store commands of one request the store may serve other workers and *)
(* may expire keys.  One action is therefore one store command together    *)
(* with the local code that runs up to the next store command.             *)
(***************************************************************************)
EXTENDS Integers, Sequences, FiniteSets, TLC

\* ------------------------------------------------------------------ bounds
MaxLimit == 2
MaxWindow == 2
MaxWorkers == 2

\* --------------------------------------------------------------- constants
\* status_code of ThrottlingResponse
TooManyRequests == 429
\* the remaining expiry Redis reports for a key that has none (TTL = -1)
NoExpiry == -1

\* Python's None, kept in the type of the strings it stands in for
None == <<"~None">>

\* strings are sequences of characters
XffValues == {None, <<>>, <<"a", "b">>}
\* scope["client"] is None or a (host, port) pair; only the host is read
ClientHosts == {None, <<>>, <<"a", "b">>, <<"a", "c">>}
TokenValues == {None, <<>>, <<"a", "b">>}
ScopeTypes == {"http", "websocket"}

\* `if x` on an optional string
Truthy(s) == s # None /\ s # <<>>

\* next(iter(s), None): the first character of s, None when s is empty
FirstChar(s) == IF Len(s) = 0 THEN None ELSE <<Head(s)>>

\* headers.get("x-forwarded-for", next(iter(scope["client"][0]), None)),
\* for a scope whose client is not None
ClientIp(xff, host) == IF xff # None THEN xff ELSE FirstChar(host)

\* every identifier the gate can hand to has_exceeded_rate_limit
Keys ==
  {k \in {ClientIp(x, h) : x \in XffValues, h \in ClientHosts \ {None}}
         \cup TokenValues : Truthy(k)}

VARIABLES
  limit,    \* self.limit
  window,   \* self.window
  workers,  \* number of worker processes serving requests
  store,    \* the Redis keyspace: key -> [value, ttl]
  slot,     \* per worker: the request it is serving
  evals,    \* history: per key, the evaluations completed since its record
            \* last expired (counted up to limit + 1)
  expired,  \* history: per key, TRUE from the expiry of its record to the
            \* next read of the key
  admitted  \* history: per key, the evaluations that returned Allow since
            \* its record was last removed by expiry

vars == <<limit, window, workers, store, slot, evals, expired, admitted>>

Workers == 1..MaxWorkers

IdleSlot ==
  [pc |-> "idle", scopeType |-> "none", phase |-> "none", cur |-> None,
   token |-> None, xff |-> None, host |-> None, ip |-> None, wrote |-> {},
   ipRet |-> "none", tokRet |-> "none", fresh |-> FALSE, touched |-> {}, appCalls |-> 0,
   sent |-> 0, status |-> 0, raised |-> "none", bare |-> FALSE]

Min(a, b) == IF a < b THEN a ELSE b

\* The history variables number the evaluations of a burst that runs one
\* after another; they are kept for single-worker runs, where evaluations
\* cannot overlap, and stay at their initial values otherwise.
Sequential == workers = 1

\* (variant: the expiry argument left out)
NewRecordNoExpiry == [value |-> 1, ttl |-> NoExpiry]

\* the record written by redis.set(identifier, 1, ex=self.window)
NewRecord == [value |-> 1, ttl |-> window]

\* __init__ keeps limit and window as given: nothing is validated.  A
\* window <= 0 is accepted as well; what the store does with a non-positive
\* expiry is decided outside this repository, and such windows are left out.
PolicyInit ==
  /\ limit \in 0..MaxLimit
  /\ window \in 1..MaxWindow

StateInit ==
  /\ store = [k \in {} |-> NewRecord]
  /\ slot = [p \in Workers |-> IdleSlot]
  /\ evals = [k \in Keys |-> 0]
  /\ expired = [k \in Keys |-> FALSE]
  /\ admitted = [k \in Keys |-> 0]

Init == PolicyInit /\ workers \in Workers /\ StateInit

InitSeq == PolicyInit /\ workers = 1 /\ StateInit

\* ------------------------------------------------------------ the store
\* redis.get(identifier) is None for a missing key ...
Present(k) == k \in DOMAIN store

\* ... and int(current_count) for a present one
StoreGet(k) == store[k].value

\* redis.set(identifier, 1, ex=self.window)
StoreSet(k) == [x \in DOMAIN store \cup {k} |-> IF x = k THEN NewRecord ELSE store[x]]

\* redis.incr(identifier): a missing key counts from 0 and gets no expiry;
\* an existing key keeps its expiry
StoreIncr(k) ==
  IF k \in DOMAIN store
  THEN [store EXCEPT ![k].value = @ + 1]
  ELSE [x \in DOMAIN store \cup {k} |->
          IF x = k THEN [value |-> 1, ttl |-> NoExpiry] ELSE store[x]]

\* (variant: a denied request is counted too)
StoreAfterDenyCounting(k) == StoreIncr(k)

\* has_exceeded_rate_limit returning True calls no store command
StoreAfterDeny(k) == store

\* (variant: the comparison off by one)
BelowLimitOrEqual(count) == count <= limit

\* int(current_count) < self.limit
BelowLimit(count) == count < limit

\* one second passes in the store: remaining expiries count down and a key
\* whose expiry reaches 0 is removed
Expiring == {k \in DOMAIN store : store[k].ttl = 1}

StoreTick ==
  [k \in DOMAIN store \ Expiring |->
     IF store[k].ttl = NoExpiry THEN store[k]
     ELSE [store[k] EXCEPT !.ttl = @ - 1]]


\* ------------------------------------------------------------- the gate
\* __call__ has returned or raised: its locals are gone.  What is kept is
\* what the request did: the keys it sent store commands for, the last
\* decision, what it sent and what it raised.
Settled(s) ==
  [s EXCEPT !.pc = "done", !.xff = None, !.host = None, !.fresh = FALSE,
            !.phase = "none", !.cur = None, !.token = None, !.ip = None]

\* await self.app(scope, receive, send); return
Forward(s) == [Settled(s) EXCEPT !.appCalls = @ + 1]

\* response = ThrottlingResponse(); await response(scope, receive, send); return
\* (a rejected request also keeps the identifier that was denied and the
\* address and token it carried)
Reject(s) ==
  [Settled(s) EXCEPT !.sent = @ + 1, !.status = TooManyRequests,
                     !.phase = s.phase, !.cur = s.cur, !.token = s.token,
                     !.ip = s.ip]

\* the return value of has_exceeded_rate_limit, as the gate receives it
Returned(s, d) ==
  IF s.phase = "ip" THEN [s EXCEPT !.ipRet = d] ELSE [s EXCEPT !.tokRet = d]

\* `if token and await self.has_exceeded_rate_limit(token)`, up to the call
TokenCheck(s) ==
  IF Truthy(s.token)
  THEN [s EXCEPT !.pc = "get", !.phase = "token", !.cur = s.token, !.fresh = FALSE]
  ELSE Forward(s)

\* (variant: a denied address falls through to the token check)
AfterDenyFallThrough(s) ==
  IF s.phase = "ip" THEN TokenCheck(Returned(s, "Deny"))
  ELSE Reject(Returned(s, "Deny"))

\* (variant: a denied token is let through)
AfterDenyTokenIgnored(s) ==
  IF s.phase = "token" THEN Forward(Returned(s, "Deny"))
  ELSE Reject(Returned(s, "Deny"))

\* has_exceeded_rate_limit returned True: the gate rejects, for the address
\* and for the token alike
AfterDeny(s) == Reject(Returned(s, "Deny"))

\* has_exceeded_rate_limit returned False: after the address check the gate
\* goes on to the token, after the token check it forwards
AfterAllow(s) ==
  IF s.phase = "ip" THEN TokenCheck(Returned(s, "Allow"))
  ELSE Forward(Returned(s, "Allow"))

\* (variant: the scope type is not looked at)
BeginAnyScope(scopeType, xff, host, token) ==
  LET s == [IdleSlot EXCEPT !.scopeType = scopeType, !.token = token,
                            !.xff = xff, !.host = host]
  IN IF host = None THEN [Settled(s) EXCEPT !.raised = "TypeError"]
     ELSE IF Truthy(ClientIp(xff, host))
       THEN [s EXCEPT !.pc = "get", !.phase = "ip", !.cur = ClientIp(xff, host),
                      !.ip = ClientIp(xff, host)]
     ELSE TokenCheck(s)

\* __call__ from its entry to its first store command
Begin(scopeType, xff, host, token) ==
  LET s == [IdleSlot EXCEPT !.scopeType = scopeType, !.token = token,
                            !.xff = xff, !.host = host,
                            !.bare = (xff = None /\ token = None
                                      /\ host \in {None, <<>>})]
  IN IF scopeType # "http" THEN Forward([s EXCEPT !.bare = FALSE])
     ELSE IF host = None
       \* scope["client"][0] with scope["client"] None: TypeError, raised
       \* while the default of headers.get is computed
       THEN [Settled(s) EXCEPT !.raised = "TypeError"]
     ELSE IF Truthy(ClientIp(xff, host))
       THEN [s EXCEPT !.pc = "get", !.phase = "ip", !.cur = ClientIp(xff, host),
                      !.ip = ClientIp(xff, host)]
     ELSE TokenCheck(s)

Start(p) ==
  /\ p <= workers
  /\ slot[p].pc = "idle"
  /\ \E scopeType \in ScopeTypes, xff \in XffValues, host \in ClientHosts,
        token \in TokenValues :
       slot' = [slot EXCEPT ![p] = Begin(scopeType, xff, host, token)]
  /\ UNCHANGED <<limit, window, workers, store, evals, expired, admitted>>

\* history: one more evaluation of k has returned
Completed(k) ==
  IF Sequential THEN [evals EXCEPT ![k] = Min(@ + 1, limit + 1)] ELSE evals

\* history: one more evaluation of k has returned Allow
Admitted(k) == [admitted EXCEPT ![k] = @ + 1]

\* the request has sent a write command (set or incr) for its identifier
Wrote(s) == [s EXCEPT !.wrote = @ \cup {s.cur}]

\* current_count = self.redis.get(identifier) and the two tests on it
Get(p) ==
  LET s == slot[p]
      k == s.cur
      r == [s EXCEPT !.touched = @ \cup {k}, !.fresh = expired[k],
                     !.xff = None, !.host = None]
  IN /\ s.pc = "get"
     /\ expired' = [expired EXCEPT ![k] = FALSE]
     /\ IF ~Present(k)
        THEN /\ slot' = [slot EXCEPT ![p] = [r EXCEPT !.pc = "set"]]
             /\ UNCHANGED <<store, evals>>
        ELSE IF BelowLimit(StoreGet(k))
        THEN /\ slot' = [slot EXCEPT ![p] = [r EXCEPT !.pc = "incr"]]
             /\ UNCHANGED <<store, evals>>
        ELSE /\ slot' = [slot EXCEPT ![p] = AfterDeny(r)]
             /\ store' = StoreAfterDeny(k)
             /\ evals' = Completed(k)
     /\ UNCHANGED <<limit, window, workers, admitted>>

\* self.redis.set(identifier, 1, ex=self.window); return False
SetEx(p) ==
  LET s == slot[p]
      k == s.cur
  IN /\ s.pc = "set"
     /\ store' = StoreSet(k)
     /\ slot' = [slot EXCEPT ![p] = AfterAllow(Wrote(s))]
     /\ evals' = Completed(k)
     /\ admitted' = Admitted(k)
     /\ UNCHANGED <<limit, window, workers, expired>>

\* self.redis.incr(identifier); return False
Incr(p) ==
  LET s == slot[p]
      k == s.cur
  IN /\ s.pc = "incr"
     /\ store' = StoreIncr(k)
     /\ slot' = [slot EXCEPT ![p] = AfterAllow(Wrote(s))]
     /\ evals' = Completed(k)
     /\ admitted' = Admitted(k)
     /\ UNCHANGED <<limit, window, workers, expired>>

\* (variant: the failure is swallowed and the request let through)
StoreFailOpen(p) ==
  /\ slot[p].pc \in {"get", "set", "incr"}
  /\ slot' = [slot EXCEPT ![p] = Forward([@ EXCEPT !.raised = "StoreError"])]
  /\ UNCHANGED <<limit, window, workers, store, evals, expired, admitted>>

\* a store command raises (the store is unreachable or times out): nothing
\* in has_exceeded_rate_limit or __call__ catches it
StoreFail(p) ==
  /\ slot[p].pc \in {"get", "set", "incr"}
  /\ slot' = [slot EXCEPT ![p] = [Settled(@) EXCEPT !.raised = "StoreError"]]
  /\ UNCHANGED <<limit, window, workers, store, evals, expired, admitted>>

\* the worker is free for its next request
Finish(p) ==
  /\ slot[p].pc = "done"
  /\ slot' = [slot EXCEPT ![p] = IdleSlot]
  /\ UNCHANGED <<limit, window, workers, store, evals, expired, admitted>>

\* the store's clock
Tick ==
  /\ \E k \in DOMAIN store : store[k].ttl # NoExpiry
  /\ store' = StoreTick
  /\ evals' = [k \in Keys |-> IF k \in Expiring THEN 0 ELSE evals[k]]
  /\ expired' = [k \in Keys |-> expired[k] \/ (Sequential /\ k \in Expiring)]
  /\ admitted' = [k \in Keys |-> IF k \in Expiring THEN 0 ELSE admitted[k]]
  /\ UNCHANGED <<limit, window, workers, slot>>

Next ==
  \/ \E p \in Workers : Start(p)
  \/ \E p \in Workers : Get(p)
  \/ \E p \in Workers : SetEx(p)
  \/ \E p \in Workers : Incr(p)
  \/ \E p \in Workers : StoreFail(p)
  \/ \E p \in Workers : Finish(p)
  \/ Tick

Spec == Init /\ [][Next]_vars

\* one worker process: requests are served one after another
SpecSeq == InitSeq /\ [][Next]_vars

\* ---------------------------------------------------------- properties
\* this step is worker p's has_exceeded_rate_limit returning to the gate
Returns(p) ==
  /\ slot[p].pc \in {"get", "set", "incr"}
  /\ slot'[p].raised = "none"
  /\ slot'[p].pc = "done" \/ slot'[p].phase # slot[p].phase

\* what it returns in such a step
Ret(p) == IF slot[p].phase = "ip" THEN slot'[p].ipRet ELSE slot'[p].tokRet

\* worker p's evaluation is the first to read its key since the key expired
FirstAfterExpiry(p) ==
  IF slot[p].pc = "get" THEN expired[slot[p].cur] ELSE slot[p].fresh

Decisions(s) == {s.ipRet, s.tokRet}

\* C1: with limit = N >= 1 and one worker, the evaluations of an identifier
\* that return one after another within one lifetime of its record are
\* allowed up to the N-th and denied from the (N+1)-th on.  evals' is the
\* number of the evaluation that returns in the step.
C1_SequentialBurst ==
  [][\A p \in Workers :
       (limit >= 1 /\ Returns(p)) =>
         LET n == evals'[slot[p].cur]
         IN /\ n <= limit => Ret(p) = "Allow"
            /\ n > limit => Ret(p) = "Deny"]_vars

\* C1 witness: the (N+1)-th evaluation of a burst has been denied
C1_Witness ==
  /\ limit = MaxLimit
  /\ \E p \in Workers :
       /\ slot[p].pc = "done" /\ slot[p].ipRet = "Deny"
       /\ evals[slot[p].cur] = limit + 1
       /\ store[slot[p].cur].value = limit

\* C2: the first evaluation of an identifier to begin after the store has
\* expired its record returns Allow and leaves the stored count at 1.
C2_FreshAfterExpiry ==
  [][\A p \in Workers :
       (Returns(p) /\ FirstAfterExpiry(p)) =>
         /\ Ret(p) = "Allow"
         /\ slot[p].cur \in DOMAIN store'
         /\ store'[slot[p].cur].value = 1]_vars

\* C3: an evaluation that finds no record for its identifier is not denied,
\* returns Allow, and its write leaves the record at value 1 with an expiry
\* of exactly window.
C3_AbsentCreates ==
  [][\A p \in Workers :
       LET k == slot[p].cur
       IN /\ (slot[p].pc = "get" /\ ~Present(k) /\ slot'[p] # slot[p]
               /\ slot'[p].raised = "none") => slot'[p].pc = "set"
          /\ (slot[p].pc = "set" /\ Returns(p)) =>
               /\ Ret(p) = "Allow"
               /\ k \in DOMAIN store'
               /\ store'[k] = [value |-> 1, ttl |-> window]]_vars

\* C3 witness: a request was allowed on creating the record of its identifier
C3_Witness ==
  \E p \in Workers :
    /\ slot[p].pc = "done" /\ slot[p].appCalls = 1
    /\ \E k \in slot[p].touched :
         /\ k \in DOMAIN store
         /\ store[k] = [value |-> 1, ttl |-> window]

\* C4: a step in which an evaluation returns Deny leaves the whole store as
\* it was: the value and the remaining expiry of every record.
C4_DenyChangesNothing ==
  [][\A p \in Workers : (Returns(p) /\ Ret(p) = "Deny") => store' = store]_vars

\* C4 witness: a request was denied on a record that is still at its limit
C4_Witness ==
  \E p \in Workers :
    /\ slot[p].pc = "done" /\ slot[p].sent = 1
    /\ slot[p].cur \in DOMAIN store
    /\ store[slot[p].cur].value >= limit
    /\ limit >= 1

\* C5: once the address evaluation of a request has returned Deny the
\* request is over: it is rejected, the downstream application is not
\* called, no token evaluation has run, and the only key the request sent
\* store commands for is its address.
C5_AddressDenyShortCircuits ==
  \A p \in Workers :
    slot[p].ipRet = "Deny" =>
      /\ slot[p].pc = "done"
      /\ slot[p].sent = 1 /\ slot[p].appCalls = 0
      /\ slot[p].tokRet = "none"
      /\ slot[p].touched = {slot[p].cur}

\* C5 witness: a request denied on its address while its token, another
\* key, is still below the limit
C5_Witness ==
  \E p \in Workers :
    /\ slot[p].ipRet = "Deny"
    /\ Truthy(slot[p].token) /\ slot[p].token # slot[p].cur
    /\ slot[p].token \in DOMAIN store
    /\ store[slot[p].token].value < limit

\* C6: every HTTP request that ends without a store failure has either sent
\* the 429 rejection and not called the downstream application, or called
\* it exactly once and sent no rejection; it is rejected exactly when one
\* of its evaluations returned Deny.
C6_ExactlyOneOutcome ==
  \A p \in Workers :
    (slot[p].pc = "done" /\ slot[p].scopeType = "http"
     /\ slot[p].raised # "StoreError") =>
      /\ \/ slot[p].sent = 1 /\ slot[p].status = TooManyRequests
            /\ slot[p].appCalls = 0
         \/ slot[p].sent = 0 /\ slot[p].appCalls = 1
      /\ slot[p].sent = 1 <=> "Deny" \in Decisions(slot[p])

\* C7: a request with no forwarded-for header, no peer address and no
\* credential header ends forwarded to the downstream application, with no
\* store command sent and nothing raised.
C7_BareRequestForwarded ==
  \A p \in Workers :
    (slot[p].pc = "done" /\ slot[p].bare) =>
      /\ slot[p].appCalls = 1 /\ slot[p].sent = 0
      /\ slot[p].touched = {}
      /\ slot[p].raised = "none"

\* C8: without a forwarded-for header the identifier of the address check
\* is the whole peer address.
C8_WholePeerAddress ==
  \A p \in Workers :
    (slot[p].pc = "get" /\ slot[p].phase = "ip" /\ slot[p].xff = None) =>
      slot[p].cur = slot[p].host

\* C9: no reachable state blocks an identifier for ever: a record that has
\* reached the limit, so that every request for it is denied, carries an
\* expiry that will remove it.
C9_BlockingIsTemporary ==
  \A k \in DOMAIN store :
    ~BelowLimit(store[k].value) => store[k].ttl # NoExpiry

\* C10: under a malformed policy (limit < 1 or window <= 0) no request is
\* ever evaluated.
C10_MalformedPolicyNeverServes ==
  (limit < 1 \/ window <= 0) =>
    \A p \in Workers : Decisions(slot[p]) = {"none"}

\* the stored count of k, 0 while it has no record
Count(k) == IF Present(k) THEN StoreGet(k) ELSE 0

\* C11: a request in which a store command failed is over at once (no
\* further store command, so no retry): the failure is raised out of the
\* gate, the downstream application has not been called and no rejection
\* has been sent.
C11_StoreFailurePropagates ==
  \A p \in Workers :
    slot[p].raised = "StoreError" =>
      /\ slot[p].pc = "done"
      /\ slot[p].appCalls = 0
      /\ slot[p].sent = 0 /\ slot[p].status = 0

\* C11 witness: the store failed during the token evaluation of a request
\* whose address had been allowed
C11_Witness ==
  \E p \in Workers :
    /\ slot[p].raised = "StoreError"
    /\ slot[p].ipRet = "Allow" /\ slot[p].wrote # {}

\* C12: a request whose scope is not HTTP is over in one step: the
\* downstream application has been called exactly once, no store command
\* was sent, no evaluation has run, nothing was rejected or raised.
C12_NonHttpBypasses ==
  \A p \in Workers :
    slot[p].scopeType = "websocket" =>
      /\ slot[p].pc = "done"
      /\ slot[p].appCalls = 1 /\ slot[p].sent = 0
      /\ slot[p].touched = {} /\ slot[p].wrote = {}
      /\ Decisions(slot[p]) = {"none"}
      /\ slot[p].raised = "none"

\* C12 witness: a non-HTTP request has passed while a record stands at its
\* limit
C12_Witness ==
  /\ limit >= 1
  /\ \E p \in Workers : slot[p].scopeType = "websocket" /\ slot[p].pc = "done"
  /\ \E k \in DOMAIN store : ~BelowLimit(store[k].value)

\* C13: the stored count of every identifier differs by at most one from
\* the number of evaluations admitted for it since the start of its window.
C13_CountTracksAdmitted ==
  \A k \in Keys :
    /\ Count(k) - admitted[k] <= 1
    /\ admitted[k] - Count(k) <= 1

\* C14: with K workers the stored count never exceeds limit + (K - 1); with
\* one worker it never exceeds limit.
C14_RaceBound ==
  \A k \in DOMAIN store : store[k].value <= limit + (workers - 1)

\* C15: an evaluation whose record expired between its read and its
\* increment returns Allow and leaves no record behind, so that the next
\* evaluation finds the record absent and starts a fresh window.
C15_ExpiryRaceStartsFresh ==
  [][\A p \in Workers :
       (slot[p].pc = "incr" /\ ~Present(slot[p].cur) /\ Returns(p)) =>
         /\ Ret(p) = "Allow"
         /\ slot[p].cur \notin DOMAIN store']_vars

\* C16: every record in the store carries a remaining expiry that is
\* positive and at most window.
C16_EveryRecordExpires ==
  \A k \in DOMAIN store : store[k].ttl >= 1 /\ store[k].ttl <= window

\* C17: the expiry of a record is fixed when it is created: a step of a
\* request gives a record it creates an expiry of window and leaves the
\* remaining expiry of every record that exists unchanged.
C17_ExpiryFixedAtCreation ==
  [][slot' # slot =>
       \A k \in DOMAIN store' :
         IF k \in DOMAIN store THEN store'[k].ttl = store[k].ttl
         ELSE store'[k].ttl = window]_vars

\* C18: no step of a request removes a record or lowers its value: the
\* value stays or goes up by one.
C18_ValueNeverDecreases ==
  [][slot' # slot =>
       \A k \in DOMAIN store :
         /\ k \in DOMAIN store'
         /\ store'[k].value \in {store[k].value, store[k].value + 1}]_vars

\* C19: a request whose address was allowed and whose token was denied is
\* rejected with 429 and not forwarded, and it has written the counter of
\* its address.
C19_TokenDenyConsumesAddressQuota ==
  \A p \in Workers :
    (slot[p].ipRet = "Allow" /\ slot[p].tokRet = "Deny") =>
      /\ slot[p].pc = "done"
      /\ slot[p].sent = 1 /\ slot[p].status = TooManyRequests
      /\ slot[p].appCalls = 0
      /\ slot[p].ip \in slot[p].wrote

\* C19 witness: such a request, with address and token different keys and
\* the address counter standing at the value the request gave it
C19_Witness ==
  \E p \in Workers :
    /\ slot[p].ipRet = "Allow" /\ slot[p].tokRet = "Deny"
    /\ slot[p].ip # slot[p].token
    /\ Present(slot[p].ip) /\ Count(slot[p].ip) = 1
    /\ admitted[slot[p].ip] = 1

\* C20: with one worker the evaluations do not interleave, and at most
\* limit evaluations of an identifier are admitted between the creation of
\* its record and its expiry.
C20_OneWorkerAdmitsAtMostLimit ==
  \A k \in Keys : admitted[k] <= limit

====
